---- MODULE Spec2Model ----
(***************************************************************************)
(* Quota ledger and identifier cache of the chart-analysis gateway.        *)
(*                                                                         *)
(* The store is the two tables created by Database.init_db:                *)
(*   verified_users(tg_id PK, pocket_id UNIQUE, daily_usage, last_usage_   *)
(*   date) and cache_ids(pocket_id PK).                                    *)
(* Every SQL statement is one atomic step (asyncpg autocommit); a          *)
(* coroutine may be interleaved with others at each await, so check_limit  *)
(* is three steps: acquire, SELECT, UPDATE.  Each /analyze request is a    *)
(* process that runs analyze_chart; verify_user and the cache operations   *)
(* are single-statement calls made by the onboarding flow.                 *)
(***************************************************************************)
EXTENDS Integers, FiniteSets

\* ---------------------------------------------------------------- bounds
NumUsers ==
    2
NumPockets ==
    2
NumProcs ==
    2
MaxDate ==
    1
MaxLimit ==
    1
MaxOps ==
    3

Users == 1..NumUsers
Pockets == 1..NumPockets
Procs == 1..NumProcs
Dates == 0..MaxDate
Limits == 0..MaxLimit

\* ------------------------------------------------------------- constants
NoRow == [pocket_id |-> 0, daily_usage |-> -1, last_usage_date |-> -1]
NoFetch == [daily_usage |-> -1, last_usage_date |-> -1]
NoUser == 0
NoPocket == 0
NoResult == [allowed |-> FALSE, remaining |-> -1, error |-> "unset"]
NoStatus == 0

VARIABLES
    verified_users,  \* table: tg_id -> row, NoRow when the user has no record
    cache_ids,       \* table: set of pocket ids
    clock,           \* the calendar date (datetime.date.today / CURRENT_DATE)
    db,              \* main.db is a Database (TRUE) or None (FALSE)
    limit,           \* the limit every check_limit call is given
    pool,            \* connections checked out of Database.pool
    pc,              \* per request: where analyze_chart stands
    tg_id,           \* per request: the form field tg_id
    today,           \* per request: check_limit's local today
    row,             \* per request: check_limit's fetched row, NoFetch when none
    limit_check,     \* per request: the dict check_limit returned
    status,          \* per request: HTTP status of the response
    model_called,    \* per request: run_model was invoked
    last,            \* history: the most recent single-statement Database call
    allowed_count,   \* history: allowed results per user and per date
    ops              \* history: requests and calls started so far

vars == <<verified_users, cache_ids, clock, db, limit, pool, pc, tg_id, today,
          row, limit_check, status, model_called, last, allowed_count, ops>>

store == <<verified_users, cache_ids>>
request == <<pc, tg_id, today, row, limit_check, status, model_called>>

\* ------------------------------------------------------- pure definitions

\* A row as a fresh INSERT creates it: daily_usage DEFAULT 0,
\* last_usage_date DEFAULT CURRENT_DATE.
NewRow(pocket, date) ==
    [pocket_id |-> pocket, daily_usage |-> 0, last_usage_date |-> date]

\* The three dicts check_limit returns.
UserNotFound ==
    [allowed |-> FALSE, remaining |-> 0, error |-> "User not found"]
LimitReached ==
    [allowed |-> FALSE, remaining |-> 0, error |-> "Limit reached"]
Allowed(remaining) ==
    [allowed |-> TRUE, remaining |-> remaining, error |-> "none"]

\* SELECT daily_usage, last_usage_date FROM verified_users WHERE tg_id = $1
Fetch(table, u) ==
    [daily_usage |-> table[u].daily_usage,
     last_usage_date |-> table[u].last_usage_date]

\* Branch without the test for a missing row.
Branch_NoRowTest(r, t, lim) ==
    IF r.last_usage_date < t THEN "reset"
    ELSE IF r.daily_usage < lim THEN "increment"
    ELSE "exhausted"

\* Branch with the limit tested before the date.
Branch_LimitFirst(r, t, lim) ==
    IF r = NoFetch THEN "not_found"
    ELSE IF r.daily_usage >= lim THEN "exhausted"
    ELSE IF r.last_usage_date < t THEN "reset"
    ELSE "increment"

\* The branch check_limit takes on the row it fetched.
Branch(r, t, lim) ==
    IF r = NoFetch THEN "not_found"
    ELSE IF r.last_usage_date < t THEN "reset"
    ELSE IF r.daily_usage < lim THEN "increment"
    ELSE "exhausted"

\* PocketTaken with no UNIQUE constraint on pocket_id.
PocketTaken_NoConstraint(table, u, e) ==
    FALSE

\* PocketTaken with the constraint checked on the INSERT only, not on the
\* DO UPDATE of an existing row.
PocketTaken_InsertOnly(table, u, e) ==
    /\ table[u] = NoRow
    /\ \E v \in Users : v # u /\ table[v] # NoRow /\ table[v].pocket_id = e

\* UNIQUE(pocket_id): some other user's row holds this pocket id.
PocketTaken(table, u, e) ==
    \E v \in Users : v # u /\ table[v] # NoRow /\ table[v].pocket_id = e

\* DenyStatus with the two responses swapped.
DenyStatus_Swapped(check) ==
    IF check.error = "User not found" THEN 429 ELSE 403

\* The denial mapping of analyze_chart.
DenyStatus(check) ==
    IF check.error = "User not found" THEN 403 ELSE 429

Idle == \A p \in Procs : pc[p] = "idle"

\* A pocket id as the text the pocket_id column holds.
PocketName(e) ==
    IF e = 1 THEN "pocket 1" ELSE IF e = 2 THEN "pocket 2"
    ELSE IF e = 3 THEN "pocket 3" ELSE "pocket"

\* No call on record.
NoCall ==
    [op |-> "none", tg_id |-> NoUser, pocket_id |-> NoPocket, ret |-> "none",
     prev |-> "none"]

\* The calls whose immediate repetition is kept on record.
Writers == {"verify_user", "add_to_cache"}

\* The record of a Database call: what was called with what, what it returned
\* and, when it repeats the call recorded just before it with nothing written
\* to the store in between, what that call returned (prev).
Called(op, u, e, ret) ==
    LET again == /\ op \in Writers
                 /\ last.op = op /\ last.tg_id = u /\ last.pocket_id = e
    IN  [op |-> op, tg_id |-> u, pocket_id |-> e, ret |-> ret,
         prev |-> IF again THEN last.ret ELSE "none"]

\* ------------------------------------------------------------------ Init
Init ==
    /\ verified_users = [u \in Users |-> NoRow]
    /\ cache_ids = {}
    /\ clock = 0
    /\ db \in BOOLEAN
    /\ limit \in Limits
    /\ pool = 0
    /\ pc = [p \in Procs |-> "idle"]
    /\ tg_id = [p \in Procs |-> NoUser]
    /\ today = [p \in Procs |-> 0]
    /\ row = [p \in Procs |-> NoFetch]
    /\ limit_check = [p \in Procs |-> NoResult]
    /\ status = [p \in Procs |-> NoStatus]
    /\ model_called = [p \in Procs |-> FALSE]
    /\ last = NoCall
    /\ allowed_count = [u \in Users |-> [d \in Dates |-> 0]]
    /\ ops = 0

\* ------------------------------------------------- analyze_chart, per request

\* main.py:94-95: db is None, the request ends 500 before any store access.
analyze_chart_no_db(p, u) ==
    /\ ops < MaxOps
    /\ ops' = ops + 1
    /\ pc[p] = "idle"
    /\ ~db
    /\ tg_id' = [tg_id EXCEPT ![p] = u]
    /\ status' = [status EXCEPT ![p] = 500]
    /\ pc' = [pc EXCEPT ![p] = "done"]
    /\ UNCHANGED <<store, clock, db, limit, pool, today, row, limit_check,
                   model_called, last, allowed_count>>

\* main.py:97 and database.py:55-57: check_limit is entered, today is read
\* from the clock and a connection is acquired; a failed acquire raises out
\* of check_limit and of the handler (500).
analyze_chart(p, u) ==
    /\ ops < MaxOps
    /\ ops' = ops + 1
    /\ pc[p] = "idle"
    /\ db
    /\ tg_id' = [tg_id EXCEPT ![p] = u]
    /\ today' = [today EXCEPT ![p] = clock]
    /\ \E fail \in BOOLEAN :
         IF fail
         THEN /\ status' = [status EXCEPT ![p] = 500]
              /\ pc' = [pc EXCEPT ![p] = "done"]
              /\ pool' = pool
         ELSE /\ status' = status
              /\ pc' = [pc EXCEPT ![p] = "fetchrow"]
              /\ pool' = pool + 1
    /\ UNCHANGED <<store, clock, db, limit, row, limit_check, model_called,
                   last, allowed_count>>

\* database.py:59-89 up to the next await: the SELECT, then the branch.  The
\* two early returns (no row, limit exhausted) leave the with-block and release
\* the connection; so does a failed SELECT, which raises (500).
check_limit_fetchrow(p) ==
    /\ pc[p] = "fetchrow"
    /\ \E fail \in BOOLEAN :
         IF fail
         THEN /\ status' = [status EXCEPT ![p] = 500]
              /\ pc' = [pc EXCEPT ![p] = "done"]
              /\ pool' = pool - 1
              /\ UNCHANGED <<row, limit_check>>
         ELSE LET r == Fetch(verified_users, tg_id[p])
                  b == Branch(r, today[p], limit)
              IN  /\ row' = [row EXCEPT ![p] = r]
                  /\ status' = status
                  /\ CASE b = "not_found" ->
                            /\ limit_check' = [limit_check EXCEPT ![p] = UserNotFound]
                            /\ pc' = [pc EXCEPT ![p] = "checked"]
                            /\ pool' = pool - 1
                       [] b = "exhausted" ->
                            /\ limit_check' = [limit_check EXCEPT ![p] = LimitReached]
                            /\ pc' = [pc EXCEPT ![p] = "checked"]
                            /\ pool' = pool - 1
                       [] OTHER ->
                            /\ limit_check' = limit_check
                            /\ pc' = [pc EXCEPT ![p] = b]
                            /\ pool' = pool
    /\ UNCHANGED <<store, clock, db, limit, tg_id, today, model_called, last,
                   allowed_count,
                   ops>>

\* ResetRow that resets without consuming: SET daily_usage = 0.
ResetRow_ResetOnly(table, u, t) ==
    IF table[u] = NoRow THEN table
    ELSE [table EXCEPT ![u].daily_usage = 0, ![u].last_usage_date = t]

\* ResetRow that leaves last_usage_date as it was.
ResetRow_KeepDate(table, u, t) ==
    IF table[u] = NoRow THEN table
    ELSE [table EXCEPT ![u].daily_usage = 1]

\* UPDATE ... SET daily_usage = 1, last_usage_date = $1 WHERE tg_id = $2
ResetRow(table, u, t) ==
    IF table[u] = NoRow THEN table
    ELSE [table EXCEPT ![u].daily_usage = 1, ![u].last_usage_date = t]

\* IncrementRow that leaves the increment to a later commit.
IncrementRow_Deferred(table, u) ==
    table

\* UPDATE ... SET daily_usage = daily_usage + 1 WHERE tg_id = $1
IncrementRow(table, u) ==
    IF table[u] = NoRow THEN table
    ELSE [table EXCEPT ![u].daily_usage = @ + 1]

\* check_limit_reset that keeps the connection when the UPDATE raises.
check_limit_reset_LeakOnRaise(p) ==
    /\ pc[p] = "reset"
    /\ \E fail \in BOOLEAN :
         IF fail
         THEN /\ status' = [status EXCEPT ![p] = 500]
              /\ pc' = [pc EXCEPT ![p] = "done"]
              /\ pool' = pool
              /\ UNCHANGED <<verified_users, limit_check, last, allowed_count>>
         ELSE /\ verified_users' = ResetRow(verified_users, tg_id[p], today[p])
              /\ limit_check' = [limit_check EXCEPT ![p] = Allowed(limit - 1)]
              /\ allowed_count' =
                   [allowed_count EXCEPT ![tg_id[p]][today[p]] = @ + 1]
              /\ last' = NoCall
              /\ status' = status
              /\ pc' = [pc EXCEPT ![p] = "checked"]
              /\ pool' = pool - 1
    /\ UNCHANGED <<cache_ids, clock, db, limit, tg_id, today, row, model_called,
                   ops>>

\* database.py:72-77: the rollover write and its return.
check_limit_reset(p) ==
    /\ pc[p] = "reset"
    /\ \E fail \in BOOLEAN :
         IF fail
         THEN /\ status' = [status EXCEPT ![p] = 500]
              /\ pc' = [pc EXCEPT ![p] = "done"]
              /\ UNCHANGED <<verified_users, limit_check, last, allowed_count>>
         ELSE /\ verified_users' = ResetRow(verified_users, tg_id[p], today[p])
              /\ limit_check' = [limit_check EXCEPT ![p] = Allowed(limit - 1)]
              /\ allowed_count' =
                   [allowed_count EXCEPT ![tg_id[p]][today[p]] = @ + 1]
              /\ last' = NoCall
              /\ status' = status
              /\ pc' = [pc EXCEPT ![p] = "checked"]
    /\ pool' = pool - 1
    /\ UNCHANGED <<cache_ids, clock, db, limit, tg_id, today, row, model_called,
                   ops>>

\* database.py:80-86: the same-day write and its return.
check_limit_increment(p) ==
    /\ pc[p] = "increment"
    /\ \E fail \in BOOLEAN :
         IF fail
         THEN /\ status' = [status EXCEPT ![p] = 500]
              /\ pc' = [pc EXCEPT ![p] = "done"]
              /\ UNCHANGED <<verified_users, limit_check, last, allowed_count>>
         ELSE /\ verified_users' = IncrementRow(verified_users, tg_id[p])
              /\ limit_check' =
                   [limit_check EXCEPT
                      ![p] = Allowed(limit - (row[p].daily_usage + 1))]
              /\ allowed_count' =
                   [allowed_count EXCEPT ![tg_id[p]][today[p]] = @ + 1]
              /\ last' = NoCall
              /\ status' = status
              /\ pc' = [pc EXCEPT ![p] = "checked"]
    /\ pool' = pool - 1
    /\ UNCHANGED <<cache_ids, clock, db, limit, tg_id, today, row, model_called,
                   ops>>

\* What the request carries that decides main.py:107-116.
Uploads == {"not_image", "empty", "image"}

\* main.py:99-116: the denial mapping, then the file and API-key checks.
analyze_chart_gate(p) ==
    /\ pc[p] = "checked"
    /\ IF ~limit_check[p].allowed
       THEN /\ status' = [status EXCEPT ![p] = DenyStatus(limit_check[p])]
            /\ pc' = [pc EXCEPT ![p] = "done"]
       ELSE \E file \in Uploads, api_key \in BOOLEAN :
              IF file # "image"
              THEN /\ status' = [status EXCEPT ![p] = 400]
                   /\ pc' = [pc EXCEPT ![p] = "done"]
              ELSE IF ~api_key
              THEN /\ status' = [status EXCEPT ![p] = 500]
                   /\ pc' = [pc EXCEPT ![p] = "done"]
              ELSE /\ status' = status
                   /\ pc' = [pc EXCEPT ![p] = "model"]
    /\ UNCHANGED <<store, clock, db, limit, pool, tg_id, today, row, limit_check,
                   model_called, last, allowed_count,
                   ops>>

\* What run_model and the parsing of its text can come to.
Responses == {"raises", "empty", "no_json", "invalid", "valid"}

\* main.py:135-157: the model call and the parsing of its answer.
analyze_chart_model(p) ==
    /\ pc[p] = "model"
    /\ model_called' = [model_called EXCEPT ![p] = TRUE]
    /\ \E response \in Responses :
         status' = [status EXCEPT ![p] = IF response = "valid" THEN 200 ELSE 502]
    /\ pc' = [pc EXCEPT ![p] = "done"]
    /\ UNCHANGED <<store, clock, db, limit, pool, tg_id, today, row, limit_check,
                   last, allowed_count,
                   ops>>

\* The response is sent; the handler's locals are gone.
respond(p) ==
    /\ pc[p] = "done"
    /\ pc' = [pc EXCEPT ![p] = "idle"]
    /\ tg_id' = [tg_id EXCEPT ![p] = NoUser]
    /\ today' = [today EXCEPT ![p] = 0]
    /\ row' = [row EXCEPT ![p] = NoFetch]
    /\ limit_check' = [limit_check EXCEPT ![p] = NoResult]
    /\ status' = [status EXCEPT ![p] = NoStatus]
    /\ model_called' = [model_called EXCEPT ![p] = FALSE]
    /\ UNCHANGED <<store, clock, db, limit, pool, last, allowed_count,
                   ops>>

\* ------------------------------------------ single-statement Database calls

\* Upsert that replaces the whole row of an existing user.
Upsert_Replace(table, u, e, date) ==
    [table EXCEPT ![u] = NewRow(e, date)]

\* Upsert whose DO UPDATE also puts daily_usage back to its default.
Upsert_ResetUsage(table, u, e, date) ==
    IF table[u] = NoRow THEN [table EXCEPT ![u] = NewRow(e, date)]
    ELSE [table EXCEPT ![u].pocket_id = e, ![u].daily_usage = 0]

\* INSERT ... ON CONFLICT (tg_id) DO UPDATE SET pocket_id = $2
Upsert(table, u, e, date) ==
    IF table[u] = NoRow THEN [table EXCEPT ![u] = NewRow(e, date)]
    ELSE [table EXCEPT ![u].pocket_id = e]

\* database.py:102-114: a unique violation or a store failure is caught and
\* turned into False.
verify_user(u, e) ==
    /\ ops < MaxOps
    /\ ops' = ops + 1
    /\ \E fail \in BOOLEAN :
         IF fail \/ PocketTaken(verified_users, u, e)
         THEN /\ verified_users' = verified_users
              /\ last' = Called("verify_user", u, e,
                                IF fail THEN "False: store" ELSE "False: unique")
         ELSE /\ verified_users' = Upsert(verified_users, u, e, clock)
              /\ last' = Called("verify_user", u, e, "True")
    /\ UNCHANGED <<cache_ids, clock, db, limit, pool, request, allowed_count>>

\* InsertCache that keeps only the id just inserted.
InsertCache_Replace(table, e) ==
    {e}

\* INSERT INTO cache_ids ... ON CONFLICT (pocket_id) DO NOTHING
InsertCache(table, e) ==
    table \cup {e}

\* InsertConflict of a plain INSERT: a pocket id already present raises.
InsertConflict_Raises(table, e) ==
    e \in table

\* ON CONFLICT (pocket_id) DO NOTHING: a pocket id already in the table is
\* no unique violation.
InsertConflict(table, e) ==
    FALSE

\* database.py:121-132: any exception is caught and turned into False.
add_to_cache(e) ==
    /\ ops < MaxOps
    /\ ops' = ops + 1
    /\ \E fail \in BOOLEAN :
         IF fail \/ InsertConflict(cache_ids, e)
         THEN /\ cache_ids' = cache_ids
              /\ last' = Called("add_to_cache", NoUser, e,
                                IF fail THEN "False: store" ELSE "False: unique")
         ELSE /\ cache_ids' = InsertCache(cache_ids, e)
              /\ last' = Called("add_to_cache", NoUser, e, "True")
    /\ UNCHANGED <<verified_users, clock, db, limit, pool, request, allowed_count>>

\* SELECT 1 FROM cache_ids WHERE pocket_id = $1 ... row is not None
InCache(table, e) ==
    e \in table

\* What a call that only reads returned; its arguments are not kept.
Answered(op, ret) ==
    Called(op, NoUser, NoPocket, ret)

\* is_id_in_cache that answers a store failure as a miss.
is_id_in_cache_FailIsMiss(e) ==
    /\ ops < MaxOps
    /\ ops' = ops + 1
    /\ \E fail \in BOOLEAN :
         last' = Answered("is_id_in_cache",
                          IF fail THEN "False"
                          ELSE IF InCache(cache_ids, e) THEN "True" ELSE "False")
    /\ UNCHANGED <<store, clock, db, limit, pool, request, allowed_count>>

\* database.py:116-119: a store failure raises.
is_id_in_cache(e) ==
    /\ ops < MaxOps
    /\ ops' = ops + 1
    /\ \E fail \in BOOLEAN :
         last' = Answered("is_id_in_cache",
                          IF fail THEN "raises"
                          ELSE IF InCache(cache_ids, e) THEN "True" ELSE "False")
    /\ UNCHANGED <<store, clock, db, limit, pool, request, allowed_count>>

\* database.py:92-95
is_user_verified(u) ==
    /\ ops < MaxOps
    /\ ops' = ops + 1
    /\ \E fail \in BOOLEAN :
         last' = Answered("is_user_verified",
                          IF fail THEN "raises"
                          ELSE IF verified_users[u] # NoRow THEN "True" ELSE "False")
    /\ UNCHANGED <<store, clock, db, limit, pool, request, allowed_count>>

\* database.py:97-100: the pocket id, None when there is no row.
get_user_pocket_id(u) ==
    /\ ops < MaxOps
    /\ ops' = ops + 1
    /\ \E fail \in BOOLEAN :
         last' = Answered("get_user_pocket_id",
                          IF fail THEN "raises"
                          ELSE IF verified_users[u] # NoRow
                               THEN PocketName(verified_users[u].pocket_id)
                               ELSE "None")
    /\ UNCHANGED <<store, clock, db, limit, pool, request, allowed_count>>

\* Midnight: datetime.date.today() and CURRENT_DATE move to the next day.
Tick ==
    /\ clock < MaxDate
    /\ clock' = clock + 1
    /\ UNCHANGED <<store, db, limit, pool, request, last, allowed_count,
                   ops>>

\* ------------------------------------------------------- specifications
\* A request is served by the first free handler slot.
Start(p) ==
    /\ \A q \in Procs : q < p => pc[q] # "idle"
    /\ \E u \in Users : analyze_chart_no_db(p, u) \/ analyze_chart(p, u)

Continue(p) ==
    \/ check_limit_fetchrow(p)
    \/ check_limit_reset(p)
    \/ check_limit_increment(p)
    \/ analyze_chart_gate(p)
    \/ analyze_chart_model(p)
    \/ respond(p)

Call ==
    \/ \E u \in Users, e \in Pockets : verify_user(u, e)
    \/ \E e \in Pockets : add_to_cache(e)
    \/ \E e \in Pockets : is_id_in_cache(e)
    \/ \E u \in Users : is_user_verified(u)
    \/ \E u \in Users : get_user_pocket_id(u)

\* Requests and calls interleave at every await.
Next ==
    \/ \E p \in Procs : Start(p)
    \/ \E p \in Procs : Continue(p)
    \/ Call
    \/ Tick

Spec == Init /\ [][Next]_vars

\* One operation at a time: a request or a call starts only when no request
\* is in flight.  The date may still change at any moment.
NextSeq ==
    \/ Idle /\ \E p \in Procs : Start(p)
    \/ \E p \in Procs : Continue(p)
    \/ Idle /\ Call
    \/ Tick

SpecSeq == Init /\ [][NextSeq]_vars

\* ------------------------------------------------------------ properties

\* check_limit has returned its dict to request p.
Returned(p) ==
    limit_check[p].error # "unset"

\* Request p read a row whose date is before the today of its call.
ReadOldDate(p) ==
    row[p].last_usage_date >= 0 /\ row[p].last_usage_date < today[p]

\* Request p read a row dated the today of its call.
ReadToday(p) ==
    row[p].last_usage_date >= 0 /\ row[p].last_usage_date = today[p]

\* C1: for one user and one date, concurrent check_limit calls never yield
\* more allowed results than the limit (stated for limits of at least 1, where
\* a result beyond the limit can only come from interleaved calls).
C1_NoOverAdmission ==
    limit >= 1 =>
        \A u \in Users, d \in Dates : allowed_count[u][d] <= limit

\* C2: with one call at a time, a fixed date and a fixed limit, at most limit
\* calls of one user are allowed, and a call made once limit calls have been
\* allowed is denied with remaining 0 and "Limit reached".
C2_MonotonicExhaustion ==
    /\ \A u \in Users, d \in Dates : allowed_count[u][d] <= limit
    /\ \A p \in Procs :
         (Returned(p) /\ ~limit_check[p].allowed
            /\ allowed_count[tg_id[p]][today[p]] >= limit
            /\ limit >= 1)
         => (limit_check[p].remaining = 0
             /\ limit_check[p].error = "Limit reached")

\* C2 for limits of at least 1: the same statement, which the one-at-a-time
\* runs satisfy.
C2_PositiveLimit ==
    limit >= 1 => C2_MonotonicExhaustion

\* C3: a check_limit call whose SELECT finds no row for the user returns
\* allowed false, remaining 0 and "User not found", and neither the step that
\* enters the call nor the SELECT step changes any row or the cache.
C3_NotFoundNoMutation ==
    [][\A p \in Procs :
         /\ (pc[p] = "idle" /\ pc'[p] # "idle") => store' = store
         /\ (pc[p] = "fetchrow" /\ pc'[p] # "fetchrow"
               /\ verified_users[tg_id[p]].daily_usage = -1
               /\ status'[p] # 500)
            => (/\ limit_check'[p].allowed = FALSE
                /\ limit_check'[p].remaining = 0
                /\ limit_check'[p].error = "User not found"
                /\ pc'[p] = "checked"
                /\ store' = store)]_vars

C3_Witness ==
    \E p \in Procs :
        /\ Returned(p)
        /\ limit_check[p].error = "User not found"
        /\ verified_users[tg_id[p]].daily_usage = -1
        /\ \E u \in Users : verified_users[u].daily_usage > 0

\* C4: a call that read a row dated before its today returns allowed, whatever
\* daily_usage the row held.
C4_DayRollover ==
    \A p \in Procs :
        (Returned(p) /\ ReadOldDate(p)) => limit_check[p].allowed

C4_Witness ==
    \E p \in Procs :
        /\ Returned(p)
        /\ ReadOldDate(p)
        /\ limit >= 1
        /\ row[p].daily_usage = limit
        /\ limit_check[p].allowed

\* C5: with one call at a time, a call that read a row dated today with
\* daily_usage below the limit returns allowed, leaves the stored daily_usage
\* one above what it read, and its remaining plus the stored daily_usage is
\* the limit.
C5_SameDayConsume ==
    \A p \in Procs :
        (Returned(p) /\ ReadToday(p) /\ row[p].daily_usage < limit)
        => (/\ limit_check[p].allowed
            /\ verified_users[tg_id[p]].daily_usage = row[p].daily_usage + 1
            /\ limit_check[p].remaining
                 + verified_users[tg_id[p]].daily_usage = limit)

C5_Witness ==
    \E p \in Procs :
        /\ Returned(p)
        /\ ReadToday(p)
        /\ row[p].daily_usage = limit - 1
        /\ limit_check[p].allowed
        /\ limit_check[p].remaining = 0
        /\ verified_users[tg_id[p]].daily_usage = limit

\* Request p passed the quota check and then ended in a failure response.
FailedDownstream(p) ==
    /\ pc[p] = "done"
    /\ Returned(p)
    /\ limit_check[p].allowed
    /\ status[p] \in {400, 500, 502}

\* C6 as claimed: with one request at a time, a request that passed the quota
\* check and then failed leaves the stored daily_usage at what its check read.
C6_FailureKeepsUsage ==
    \A p \in Procs :
        FailedDownstream(p)
        => verified_users[tg_id[p]].daily_usage = row[p].daily_usage

\* C6 as amended: with one request at a time, a request that passed the quota
\* check and then failed leaves the stored daily_usage at the value its check
\* wrote (1 after a rollover, one above what it read otherwise): the unit the
\* check consumed stays consumed, and the failure adds and refunds nothing.
C6_FailureKeepsConsumedUnit ==
    \A p \in Procs :
        FailedDownstream(p)
        => verified_users[tg_id[p]].daily_usage =
             IF ReadOldDate(p) THEN 1 ELSE row[p].daily_usage + 1

C6_Witness ==
    \E p \in Procs :
        /\ FailedDownstream(p) /\ status[p] = 502 /\ model_called[p]
        /\ ReadToday(p) /\ row[p].daily_usage = 0
        /\ verified_users[tg_id[p]].daily_usage = 1

\* C7: a request whose check_limit result is a denial never reaches the model
\* call, and ends 403 for "User not found" and 429 for "Limit reached".
C7_DenyNeverAnalyzes ==
    \A p \in Procs :
        (Returned(p) /\ ~limit_check[p].allowed)
        => (/\ ~model_called[p]
            /\ pc[p] \in {"checked", "done"}
            /\ limit_check[p].error \in {"User not found", "Limit reached"}
            /\ (pc[p] = "done" /\ limit_check[p].error = "User not found")
                 => status[p] = 403
            /\ (pc[p] = "done" /\ limit_check[p].error = "Limit reached")
                 => status[p] = 429)

C7_Witness ==
    \E p \in Procs :
        /\ pc[p] = "done"
        /\ limit_check[p].error = "Limit reached"
        /\ status[p] = 429
        /\ ~model_called[p]
        /\ limit >= 1
        /\ row[p].daily_usage = limit

\* This step is a call of op: it put the call on record or wrote to the store.
CallStep(op) ==
    /\ last'.op = op
    /\ (last' # last \/ store' # store)

\* C8: unless the store fails, add_to_cache(x) returns True and x is in the
\* cache afterwards, for every prior cache state; when x was already in the
\* cache (as after a first add_to_cache(x)) the cache is left unchanged.
C8_CacheInsertIdempotent ==
    [][\A e \in Pockets :
         (CallStep("add_to_cache") /\ last'.pocket_id = e
            /\ last'.ret # "False: store")
         => (/\ last'.ret = "True"
             /\ e \in cache_ids'
             /\ (e \in cache_ids => cache_ids' = cache_ids))]_vars

C8_Witness ==
    /\ last.op = "add_to_cache"
    /\ last.prev = "True"
    /\ last.ret = "True"
    /\ last.pocket_id \in cache_ids
    /\ cache_ids # {last.pocket_id}

\* C9: unless the store fails, verify_user(u, e) on a record of u already
\* bound to e (as a first successful verify_user(u, e) leaves it) returns True
\* and leaves the whole record of u unchanged; and a verify_user(u, e) that
\* returns True leaves u bound to e.
C9_UpsertIdempotent ==
    [][\A u \in Users, e \in Pockets :
         (CallStep("verify_user") /\ last'.tg_id = u /\ last'.pocket_id = e)
         => (/\ (verified_users[u].pocket_id = e /\ last'.ret # "False: store")
                => (last'.ret = "True"
                    /\ verified_users'[u] = verified_users[u])
             /\ last'.ret = "True" => verified_users'[u].pocket_id = e)]_vars

C9_Witness ==
    /\ last.op = "verify_user"
    /\ last.prev = "True"
    /\ last.ret = "True"
    /\ verified_users[last.tg_id].pocket_id = last.pocket_id
    /\ verified_users[last.tg_id].last_usage_date < clock

\* C10: verify_user(u2, e) with e bound to another user's record returns
\* False and leaves every record unchanged, whether or not u2 has a record.
C10_CollisionSurfaced ==
    [][\A u \in Users, e \in Pockets :
         (CallStep("verify_user") /\ last'.tg_id = u /\ last'.pocket_id = e
            /\ \E v \in Users : v # u /\ verified_users[v].pocket_id = e)
         => (/\ last'.ret \in {"False: unique", "False: store"}
             /\ verified_users' = verified_users)]_vars

C10_Witness ==
    /\ last.op = "verify_user"
    /\ last.ret = "False: unique"
    /\ verified_users[last.tg_id].pocket_id \notin {NoPocket, last.pocket_id}
    /\ \E v \in Users :
          v # last.tg_id /\ verified_users[v].pocket_id = last.pocket_id


\* Request p left check_limit by an exception on this step.
CheckLimitRaised(p) ==
    /\ db
    /\ pc[p] \in {"idle", "fetchrow", "reset", "increment"}
    /\ pc'[p] = "done"

\* C11: a store failure is surfaced as a failure.  A check_limit call that a
\* failed acquire, SELECT or UPDATE ends gives no result at all (the request
\* ends 500), is counted as no allowed call and leaves the store unchanged; a
\* call is allowed only with its write in the store; is_id_in_cache answers
\* False only while some id is absent from the cache; add_to_cache and
\* verify_user return True only with their write in the store and leave the
\* store unchanged otherwise.
C11_StoreFailureSurfaced ==
    [][/\ \A p \in Procs :
            /\ CheckLimitRaised(p)
               => (/\ status'[p] = 500
                   /\ limit_check'[p] = NoResult
                   /\ ~limit_check'[p].allowed
                   /\ allowed_count' = allowed_count
                   /\ store' = store)
            /\ (~limit_check[p].allowed /\ limit_check'[p].allowed)
               => (/\ verified_users'[tg_id[p]].daily_usage >= 1
                   /\ verified_users'[tg_id[p]].last_usage_date = today[p]
                   /\ verified_users' # verified_users)
       /\ (CallStep("is_id_in_cache") /\ last'.ret = "False")
          => cache_ids # Pockets
       /\ CallStep("add_to_cache")
          => IF last'.ret = "True" THEN last'.pocket_id \in cache_ids'
             ELSE store' = store
       /\ CallStep("verify_user")
          => IF last'.ret = "True"
             THEN verified_users'[last'.tg_id].pocket_id = last'.pocket_id
             ELSE store' = store]_vars

C11_Witness ==
    /\ last.ret = "False: store"
    /\ \E p \in Procs :
         /\ pc[p] = "done"
         /\ status[p] = 500
         /\ row[p] # NoFetch
         /\ limit_check[p] = NoResult


\* The requests that are inside check_limit's with-block.
InCheckLimit ==
    {p \in Procs : pc[p] \in {"fetchrow", "reset", "increment"}}

\* C12: the connections checked out of the pool are exactly one for each
\* check_limit call that is inside its with-block; a call that has left it,
\* by a return or by an exception, holds none, the single-statement calls hold
\* none between steps, and with no call in progress the count is zero.
C12_ConnectionsReleased ==
    /\ pool = Cardinality(InCheckLimit)
    /\ InCheckLimit = {} => pool = 0

C12_Witness ==
    /\ pool = 0
    /\ last.op \in Writers
    /\ \E p \in Procs :
         /\ pc[p] = "done"
         /\ status[p] = 500
         /\ ReadOldDate(p)


\* C13: with the one limit every call is given, each stored daily_usage is
\* between 0 and the limit in every reachable state, interleaved check_limit
\* calls included (stated for limits of at least 1, where a daily_usage beyond
\* the limit can only come from interleaved calls).
C13_UsageWithinLimit ==
    limit >= 1 =>
        \A u \in Users :
            verified_users[u] # NoRow
            => (verified_users[u].daily_usage >= 0
                /\ verified_users[u].daily_usage <= limit)


\* C14: the SELECT of a call on the rollover path writes nothing, and its
\* UPDATE, the one write of the call, sets daily_usage to 1 and
\* last_usage_date to the call's today for that user and changes nothing else;
\* the call returns allowed with remaining limit - 1, and the record is then
\* dated today, so that a check on it falls in the same-day case.
C14_RolloverWrite ==
    [][\A p \in Procs :
         /\ (pc[p] = "fetchrow" /\ pc'[p] = "reset") => store' = store
         /\ (pc[p] = "reset" /\ pc'[p] = "checked")
            => (/\ verified_users' =
                     [verified_users EXCEPT
                        ![tg_id[p]].daily_usage = 1,
                        ![tg_id[p]].last_usage_date = today[p]]
                /\ cache_ids' = cache_ids
                /\ limit_check'[p] = Allowed(limit - 1)
                /\ Branch(Fetch(verified_users', tg_id[p]), today[p], limit)
                     \in {"increment", "exhausted"})]_vars

C14_Witness ==
    \E p \in Procs :
        /\ Returned(p)
        /\ ReadOldDate(p)
        /\ limit_check[p] = Allowed(limit - 1)
        /\ limit >= 1
        /\ verified_users[tg_id[p]].pocket_id # NoPocket
        /\ verified_users[tg_id[p]].daily_usage = 1
        /\ verified_users[tg_id[p]].last_usage_date = today[p]


\* The users that have a record.
Verified ==
    {u \in Users : verified_users[u] # NoRow}

\* C15: in every reachable state no two records hold the same pocket_id,
\* whatever the order of the verify_user calls of different users and of
\* re-verifications.
C15_UniquePocket ==
    \A u \in Verified, v \in Verified :
        u # v => verified_users[u].pocket_id # verified_users[v].pocket_id

C15_Witness ==
    /\ Cardinality(Verified) >= 2
    /\ last.op = "verify_user"
    /\ last.ret = "False: unique"
    /\ last.tg_id \in Verified
    /\ \E v \in Verified : v # last.tg_id /\ verified_users[v].daily_usage = 0


\* C16: no step takes an id out of the cache: an id that is_id_in_cache finds
\* is found after every later step; the cache changes only in a step of
\* add_to_cache, and then by its argument alone, so check_limit, verify_user
\* and the read-only calls leave it as it is.
C16_CacheMonotonic ==
    [][/\ \A e \in Pockets : InCache(cache_ids, e) => InCache(cache_ids', e)
       /\ cache_ids' # cache_ids
          => (/\ last'.op = "add_to_cache"
              /\ cache_ids' = cache_ids \cup {last'.pocket_id})]_vars

C16_Witness ==
    /\ cache_ids # {}
    /\ last = NoCall
    /\ \E p \in Procs : Returned(p) /\ limit_check[p].allowed


\* C17: the stored daily_usage counts the allowed calls of its date, under
\* every interleaving: a call that returns allowed while the record already
\* carries the call's today (another call has opened that date) leaves
\* daily_usage one above what was stored, and a call that returns allowed on
\* a record of an earlier date leaves it at 1, dated today; either way the
\* allowed calls counted for the user and the date go up by one.
C17_UsageAccountingExact ==
    [][\A p \in Procs :
         LET u == tg_id[p]
         IN  (/\ ~limit_check[p].allowed /\ limit_check'[p].allowed
              /\ verified_users[u].last_usage_date <= today[p])
             => (/\ allowed_count'[u][today[p]] = allowed_count[u][today[p]] + 1
                 /\ verified_users'[u].last_usage_date = today[p]
                 /\ verified_users'[u].daily_usage =
                      IF verified_users[u].last_usage_date = today[p]
                      THEN verified_users[u].daily_usage + 1
                      ELSE 1)]_vars


\* C18: a verify_user call on a user that has a record leaves that record's
\* daily_usage and last_usage_date, every other user's record, the cache and
\* the count of allowed calls as they were, and changes at most pocket_id, to
\* its argument; and with verify_user calls made between the check_limit
\* calls (one operation at a time, limit at least 1) no user is allowed more
\* than limit calls on a date.
C18_ReverifyKeepsQuota ==
    [][/\ \A u \in Verified :
            (CallStep("verify_user") /\ last'.tg_id = u)
            => (/\ verified_users'[u].daily_usage = verified_users[u].daily_usage
                /\ verified_users'[u].last_usage_date
                     = verified_users[u].last_usage_date
                /\ verified_users'[u].pocket_id
                     \in {verified_users[u].pocket_id, last'.pocket_id}
                /\ \A v \in Users : v # u => verified_users'[v] = verified_users[v]
                /\ cache_ids' = cache_ids
                /\ allowed_count' = allowed_count)
       /\ limit >= 1
          => \A u \in Users, d \in Dates : allowed_count'[u][d] <= limit]_vars

C18_Witness ==
    /\ last.op = "verify_user"
    /\ last.ret = "True"
    /\ last.prev = "none"
    /\ verified_users[last.tg_id].pocket_id = last.pocket_id
    /\ verified_users[last.tg_id].daily_usage >= 1
    /\ allowed_count[last.tg_id][verified_users[last.tg_id].last_usage_date]
         = verified_users[last.tg_id].daily_usage


\* C19: for every limit from 0 up and every record, the remaining that
\* check_limit returns is not negative: between 0 and limit - 1 in an allowed
\* result, 0 in a denied one.
C19_RemainingNotNegative ==
    \A p \in Procs :
        Returned(p)
        => IF limit_check[p].allowed
           THEN limit_check[p].remaining >= 0
                /\ limit_check[p].remaining <= limit - 1
           ELSE limit_check[p].remaining = 0

====
